---- MODULE Spec2Model ----
(***************************************************************************)
(* MUST-have-plugin: the replacement engine (applyReplacements), in its    *)
(* TypeScript source form and in the compiled build kept beside it, the    *)
(* configuration loader (loadConfig) and the plugin's two event handlers.  *)
(*                                                                         *)
(* A JavaScript string is a sequence of one-character strings.  Offsets    *)
(* are JavaScript's (0-based): the character at offset i is text[i + 1].   *)
(***************************************************************************)
EXTENDS Integers, Sequences, FiniteSets, TLC

VARIABLES
    variant,          \* "ts": src/index.js:458-507, "compiled": src/index.js:166-192
    text,             \* applyReplacements' first argument
    replacements,     \* its second: the object's entries, in insertion order
    pc,               \* "start", "loop", "done"
    sortedKeys,       \* const sortedKeys
    combinedPattern,  \* const combinedPattern: the alternatives, in order
    lookup,           \* const lookup (a Map)
    counts,           \* const counts (a Map)
    reLastIndex,      \* combinedPattern.lastIndex, the matcher's scan position
    lastIndex,        \* let lastIndex, the last copied offset
    result,           \* let result
    matches,          \* history: one record per match the scan returned
    loaded,           \* whether Replacer has run (sdkClient is set, the hooks exist)
    configFile,       \* the file at CONFIG_PATH
    debugEnabled,     \* let debugEnabled
    sessionsWithCommand, \* const sessionsWithCommand (a Set)
    initialConfig,    \* const initialConfig, loaded at start-up
    parts,            \* output.parts of the last chat.message, as the hook left them
    event,            \* history: the last event handled and how
    commandSince,     \* history: the sessions with a command.execute.before
                      \* since their previous chat.message
    tabulated,        \* loadConfig over the files of the model and applyReplacements
                      \* over its rule sets and texts, worked out once
    literal,          \* the string literal of the document being edited, as written
    decorations,      \* the comments and the trailing comma added to the document
    document,         \* parseJSONC's argument: the document with its decorations
    decoding,         \* "idle", "editing", "decoded"
    decoded           \* what parseJSONC and JSON.parse returned

engineVars == <<variant, text, replacements, pc, sortedKeys, combinedPattern,
                lookup, counts, reLastIndex, lastIndex, result, matches>>

pluginVars == <<loaded, configFile, debugEnabled, sessionsWithCommand, initialConfig,
                parts, event, commandSince, tabulated>>

decoderVars == <<literal, decorations, document, decoding, decoded>>

vars == <<engineVars, pluginVars, decoderVars>>

\* no document is being decoded
DecoderIdle ==
    /\ literal = <<>>
    /\ decorations = {}
    /\ document = <<>>
    /\ decoding = "idle"
    /\ decoded = <<>>

(***************************************************************************)
(* Bounds                                                                  *)
(***************************************************************************)
MaxTokens == 3

(***************************************************************************)
(* Characters                                                              *)
(***************************************************************************)
ToLowerMap ==
    [A |-> "a", B |-> "b", C |-> "c", D |-> "d", E |-> "e", F |-> "f",
     G |-> "g", H |-> "h", I |-> "i", J |-> "j", K |-> "k", L |-> "l",
     M |-> "m", N |-> "n", O |-> "o", P |-> "p", Q |-> "q", R |-> "r",
     S |-> "s", T |-> "t", U |-> "u", V |-> "v", W |-> "w", X |-> "x",
     Y |-> "y", Z |-> "z"]

UpperChars == DOMAIN ToLowerMap

LowerChars == {ToLowerMap[c] : c \in UpperChars}

Digits == {"0", "1", "2", "3", "4", "5", "6", "7", "8", "9"}

\* the characters /\s/ matches, among those the model uses
WhiteSpace == {" ", "\n", "\t"}

\* the characters escapeRegex's class [.*+?^${}()|[\]\\] holds
RegexSpecials == {".", "*", "+", "?", "^", "$", "{", "}", "(", ")", "|", "[", "]", "\\"}

\* String.prototype.toLowerCase, one character
LowerChar(c) == IF c \in UpperChars THEN ToLowerMap[c] ELSE c

\* String.prototype.toLowerCase
toLowerCase(s) == [i \in 1..Len(s) |-> LowerChar(s[i])]

\* the "i" flag: two characters match when their canonical forms agree
SameIgnoringCase(c, d) == LowerChar(c) = LowerChar(d)

IsLetter(c) == c \in UpperChars \cup LowerChars

\* the class [a-zA-Z*_] of the lookbehind and lookahead
InBoundaryClass(c) == IsLetter(c) \/ c \in {"*", "_"}

\* \w, the word characters \b is defined by
IsWordChar(c) == IsLetter(c) \/ c \in Digits \/ c = "_"

\* String.prototype.slice(a, b) for 0 <= a, b <= length
Slice(s, a, b) == IF a >= b THEN <<>> ELSE SubSeq(s, a + 1, b)

\* F of the value of e, with e evaluated once
Let(e, F(_)) == CHOOSE r \in {F(x) : x \in {e}} : TRUE

(***************************************************************************)
(* Maps (JavaScript Map objects) as functions                              *)
(***************************************************************************)
EmptyMap == <<>>

\* Map.prototype.get: found is FALSE where JavaScript answers undefined
MapGet(m, k) ==
    IF k \in DOMAIN m THEN [found |-> TRUE, value |-> m[k]]
    ELSE [found |-> FALSE, value |-> <<>>]

\* Map.prototype.set
MapSet(m, k, v) == [x \in (DOMAIN m) \cup {k} |-> IF x = k THEN v ELSE m[x]]

\* JavaScript truthiness of a string-or-undefined: undefined and "" are falsy
Truthy(r) == r.found /\ r.value # <<>>

\* Object.keys(replacements)
ObjectKeys(obj) == [i \in 1..Len(obj) |-> obj[i].key]

\* replacements[key]
ObjectGet(obj, k) == obj[CHOOSE i \in 1..Len(obj) : obj[i].key = k].value

(***************************************************************************)
(* Rule-set construction: src/index.js:466-480 (and 170-180)               *)
(***************************************************************************)
RECURSIVE KeysOfLengthDownFrom(_, _)
KeysOfLengthDownFrom(keys, n) ==
    IF n < 0 THEN <<>>
    ELSE SelectSeq(keys, LAMBDA k : Len(k) = n) \o KeysOfLengthDownFrom(keys, n - 1)

MaxKeyLen(keys) ==
    IF keys = <<>> THEN 0
    ELSE CHOOSE n \in {Len(keys[i]) : i \in 1..Len(keys)} :
            \A i \in 1..Len(keys) : Len(keys[i]) <= n

\* the keys left in the order Object.keys gives them
KeysUnsorted(keys) == keys

\* keys.sort((a, b) => b.length - a.length): stable, longest first
SortLongestFirst(keys) == KeysOfLengthDownFrom(keys, MaxKeyLen(keys))

\* escapeRegex: a backslash before every special character
RECURSIVE escapeRegex(_)
escapeRegex(str) ==
    IF str = <<>> THEN <<>>
    ELSE (IF Head(str) \in RegexSpecials THEN <<"\\", Head(str)>> ELSE <<Head(str)>>)
         \o escapeRegex(Tail(str))

\* what the pattern compiler makes of a pattern's literal part: "\c" is the
\* character c, an unescaped "." is any character, any other character itself
RECURSIVE CompileAtoms(_)
CompileAtoms(src) ==
    IF src = <<>> THEN <<>>
    ELSE IF Head(src) = "\\" /\ Len(src) >= 2
         THEN <<[kind |-> "lit", ch |-> src[2]]>> \o CompileAtoms(Tail(Tail(src)))
    ELSE IF Head(src) = "."
         THEN <<[kind |-> "any", ch |-> "."]>> \o CompileAtoms(Tail(src))
    ELSE <<[kind |-> "lit", ch |-> Head(src)]>> \o CompileAtoms(Tail(src))

\* one alternative of the combined pattern:
\*   ts        (?<![a-zA-Z*_])key(?![a-zA-Z*_])
\*   compiled  \bkey\b
PatternString(v, key) ==
    [before |-> IF v = "ts" THEN "notBehindClass" ELSE "wordBoundary",
     atoms  |-> CompileAtoms(escapeRegex(key)),
     after  |-> IF v = "ts" THEN "notAheadClass" ELSE "wordBoundary"]

\* new RegExp(`(${patternStrings.join("|")})`, "gi")
CombinedPattern(v, keys) == [a \in 1..Len(keys) |-> PatternString(v, keys[a])]

\* the lookup keyed by the keys as written, not lowercased
BuildLookupAsWritten(keys, obj, m) ==
    [k \in {keys[i] : i \in 1..Len(keys)} |-> ObjectGet(obj, k)]

\* lookup.set(key.toLowerCase(), replacements[key]) for each key in order
RECURSIVE BuildLookup(_, _, _)
BuildLookup(keys, obj, m) ==
    IF keys = <<>> THEN m
    ELSE Let(MapSet(m, toLowerCase(Head(keys)), ObjectGet(obj, Head(keys))),
             LAMBDA set : BuildLookup(Tail(keys), obj, set))

(***************************************************************************)
(* The matcher                                                             *)
(***************************************************************************)
WordCharAt(t, q) == q >= 1 /\ q <= Len(t) /\ IsWordChar(t[q])

\* a zero-width assertion at offset p (between t[p] and t[p + 1])
AssertionHolds(kind, t, p) ==
    CASE kind = "notBehindClass" -> p = 0 \/ ~InBoundaryClass(t[p])
      [] kind = "notAheadClass"  -> p = Len(t) \/ ~InBoundaryClass(t[p + 1])
      [] kind = "wordBoundary"   -> WordCharAt(t, p) # WordCharAt(t, p + 1)

AtomMatches(atom, c) ==
    IF atom.kind = "any" THEN c # "\n" ELSE SameIgnoringCase(atom.ch, c)

\* whether one alternative matches at offset i
AltMatchesAt(alt, t, i) ==
    /\ i + Len(alt.atoms) <= Len(t)
    /\ \A j \in 1..Len(alt.atoms) : AtomMatches(alt.atoms[j], t[i + j])
    /\ AssertionHolds(alt.before, t, i)
    /\ AssertionHolds(alt.after, t, i + Len(alt.atoms))

MinOf(S) == CHOOSE x \in S : \A y \in S : x <= y

\* RegExp.prototype.exec from offset `from`: the leftmost offset at which some
\* alternative matches, and there the first alternative that does
Exec(pattern, t, from) ==
    LET at == {i \in from..Len(t) : \E a \in 1..Len(pattern) : AltMatchesAt(pattern[a], t, i)}
    IN  IF at = {} THEN [found |-> FALSE, index |-> 0, length |-> 0, alt |-> 0]
        ELSE LET i == MinOf(at)
                 a == MinOf({b \in 1..Len(pattern) : AltMatchesAt(pattern[b], t, i)})
             IN  [found |-> TRUE, index |-> i, length |-> Len(pattern[a].atoms), alt |-> a]

\* /\s$/.test(replacement)
EndsInWhiteSpace(s) == s # <<>> /\ s[Len(s)] \in WhiteSpace

\* counts.set(k, (counts.get(k) || 0) + 1)
Tally(m, k) == MapSet(m, k, (IF k \in DOMAIN m THEN m[k] ELSE 0) + 1)

(***************************************************************************)
(* One iteration of the scan.  st holds reLastIndex, lastIndex, result,    *)
(* counts and matches; m is what exec returned.                            *)
(***************************************************************************)
MatchRecord(t, keys, m, replacement, substituted, consumed) ==
    [index |-> m.index, length |-> m.length, key |-> keys[m.alt],
     matched |-> Slice(t, m.index, m.index + m.length),
     found |-> replacement.found, replacement |-> replacement.value,
     substituted |-> substituted, consumed |-> consumed]

\* the while loop's body, src/index.js:490-502
WhileBody(t, keys, lkp, st, m) ==
    LET m0 == Slice(t, m.index, m.index + m.length)
        replacement == MapGet(lkp, toLowerCase(m0))
        end == m.index + m.length
        consumed == /\ Truthy(replacement)
                    /\ EndsInWhiteSpace(replacement.value)
                    /\ end < Len(t)
                    /\ t[end + 1] = " "
    IN  IF Truthy(replacement)
        THEN [reLastIndex |-> end,
              lastIndex   |-> IF consumed THEN end + 1 ELSE end,
              result      |-> st.result \o Slice(t, st.lastIndex, m.index) \o replacement.value,
              counts      |-> Tally(st.counts, toLowerCase(m0)),
              matches     |-> Append(st.matches, MatchRecord(t, keys, m, replacement, TRUE, consumed))]
        ELSE [reLastIndex |-> end,
              lastIndex   |-> end,
              result      |-> st.result \o Slice(t, st.lastIndex, m.index) \o m0,
              counts      |-> st.counts,
              matches     |-> Append(st.matches, MatchRecord(t, keys, m, replacement, FALSE, FALSE))]

\* text.replace(combinedPattern, callback), one match: src/index.js:183-190.
\* String.prototype.replace steps past an empty match by one character.
ReplaceCallback(t, keys, lkp, st, m) ==
    LET m0 == Slice(t, m.index, m.index + m.length)
        replacement == MapGet(lkp, toLowerCase(m0))
        end == m.index + m.length
    IN  [reLastIndex |-> IF m.length = 0 THEN end + 1 ELSE end,
         lastIndex   |-> end,
         result      |-> st.result \o Slice(t, st.lastIndex, m.index)
                           \o (IF Truthy(replacement) THEN replacement.value ELSE m0),
         counts      |-> IF Truthy(replacement) THEN Tally(st.counts, toLowerCase(m0))
                         ELSE st.counts,
         matches     |-> Append(st.matches,
                                MatchRecord(t, keys, m, replacement, Truthy(replacement), FALSE))]

ScanStep(v, t, keys, lkp, st, m) ==
    IF v = "ts" THEN WhileBody(t, keys, lkp, st, m) ELSE ReplaceCallback(t, keys, lkp, st, m)

\* the state the scan starts in: src/index.js:482-486
ScanStart ==
    [reLastIndex |-> 0, lastIndex |-> 0, result |-> <<>>, counts |-> EmptyMap,
     matches |-> <<>>]

\* the tail after the last match left out
TailDropped(t, st) == st.result

\* result += text.slice(lastIndex), src/index.js:504
CopyTail(t, st) == st.result \o Slice(t, st.lastIndex, Len(t))

\* applyReplacements as one function: the result, the counts, the matches it
\* went through and whether it returned.  fuel bounds the iterations: a scan
\* that returns makes at most 2 * Len(t) + 1 of them.
RECURSIVE ScanLoop(_, _, _, _, _, _, _)
ScanLoop(v, t, keys, pattern, lkp, st, fuel) ==
    Let(Exec(pattern, t, st.reLastIndex), LAMBDA m :
        IF ~m.found
        THEN [result |-> CopyTail(t, st), counts |-> st.counts,
              matches |-> st.matches, returned |-> TRUE]
        ELSE IF fuel = 0
        THEN [result |-> st.result, counts |-> st.counts,
              matches |-> st.matches, returned |-> FALSE]
        ELSE Let(ScanStep(v, t, keys, lkp, st, m), LAMBDA next :
                 ScanLoop(v, t, keys, pattern, lkp, next, fuel - 1)))

MaxIterations(t) == 2 * Len(t) + 2

applyReplacements(v, t, obj) ==
    IF Len(ObjectKeys(obj)) = 0
    THEN [result |-> t, counts |-> EmptyMap, matches |-> <<>>, returned |-> TRUE]
    ELSE Let(SortLongestFirst(ObjectKeys(obj)), LAMBDA keys :
             Let(CombinedPattern(v, keys), LAMBDA pattern :
                 Let(BuildLookup(keys, obj, EmptyMap), LAMBDA lkp :
                     ScanLoop(v, t, keys, pattern, lkp, ScanStart, MaxIterations(t)))))

(***************************************************************************)
(* Inputs of the engine: rule sets, each with the tokens its texts are     *)
(* made of and the texts the documentation names                           *)
(***************************************************************************)
MustAndMustNot ==
    [rules    |-> <<[key |-> <<"m", "u", "s", "t">>, value |-> <<"M", "U", "S", "T">>],
          [key |-> <<"m", "u", "s", "t", " ", "n", "o", "t">>, value |-> <<"M", "U", "S", "T", " ", "N", "O", "T">>]>>,
     tokens   |-> {<<"m", "u", "s", "t">>,
                 <<"n", "o", "t">>,
                 <<" ">>,
                 <<"M", "u", "s", "t">>,
                 <<"x">>},
     examples |-> {<<"y", "o", "u", " ", "m", "u", "s", "t", " ", "n", "o", "t", " ", "f", "a", "i", "l">>}]

MayOnly ==
    [rules    |-> <<[key |-> <<"m", "a", "y">>, value |-> <<"M", "A", "Y">>]>>,
     tokens   |-> {<<"m", "a", "y">>,
                 <<"b", "e">>,
                 <<" ">>,
                 <<"*">>,
                 <<"_">>,
                 <<"1">>},
     examples |-> {<<"m", "a", "y", "b", "e">>}]

MustOnly ==
    [rules    |-> <<[key |-> <<"m", "u", "s", "t">>, value |-> <<"M", "U", "S", "T">>]>>,
     tokens   |-> {<<"m", "u", "s", "t">>,
                 <<"M", "u", "s", "t">>,
                 <<"M", "U", "S", "T">>,
                 <<" ">>,
                 <<"*">>,
                 <<"*", "*">>},
     examples |-> {<<"m", "u", "s", "t", " ", "M", "u", "s", "t", " ", "M", "U", "S", "T">>,
                 <<"*", "*", "M", "U", "S", "T", "*", "*">>,
                 <<"t", "h", "e", " ", "*", "*", "M", "U", "S", "T", "*", "*", " ", "m", "u", "s", "t">>}]

BoldMustNot ==
    [rules    |-> <<[key |-> <<"m", "u", "s", "t", " ", "n", "o", "t">>, value |-> <<"*", "*", "M", "U", "S", "T", " ", "N", "O", "T", "*", "*">>]>>,
     tokens   |-> {<<"m", "u", "s", "t", " ", "n", "o", "t">>,
                 <<"m", "u", "s", "t">>,
                 <<" ">>,
                 <<"n", "o", "t">>,
                 <<"*", "*">>},
     examples |-> {<<"m", "u", "s", "t", " ", "n", "o", "t">>,
                 <<"*", "*", "M", "U", "S", "T", " ", "N", "O", "T", "*", "*">>}]

BoldAll ==
    [rules    |-> <<[key |-> <<"m", "u", "s", "t">>, value |-> <<"*", "*", "M", "U", "S", "T", "*", "*">>],
          [key |-> <<"n", "o", "t">>, value |-> <<"*", "*", "N", "O", "T", "*", "*">>],
          [key |-> <<"m", "u", "s", "t", " ", "n", "o", "t">>, value |-> <<"*", "*", "M", "U", "S", "T", " ", "N", "O", "T", "*", "*">>]>>,
     tokens   |-> {<<"m", "u", "s", "t", " ", "n", "o", "t">>,
                 <<"m", "u", "s", "t">>,
                 <<" ">>,
                 <<"n", "o", "t">>,
                 <<"*", "*">>},
     examples |-> {<<"m", "u", "s", "t", " ", "n", "o", "t">>,
                 <<"*", "*", "M", "U", "S", "T", " ", "N", "O", "T", "*", "*">>}]

CapitalKey ==
    [rules    |-> <<[key |-> <<"M", "u", "s", "t">>, value |-> <<"M", "U", "S", "T">>]>>,
     tokens   |-> {<<"m", "u", "s", "t">>,
                 <<"M", "u", "s", "t">>,
                 <<"M", "U", "S", "T">>,
                 <<" ">>,
                 <<"s">>},
     examples |-> {<<"m", "u", "s", "t", " ", "M", "u", "s", "t", " ", "M", "U", "S", "T">>}]

CaseTwins ==
    [rules    |-> <<[key |-> <<"M", "u", "s", "t">>, value |-> <<"A">>],
          [key |-> <<"m", "u", "s", "t">>, value |-> <<"B">>]>>,
     tokens   |-> {<<"m", "u", "s", "t">>,
                 <<"M", "u", "s", "t">>,
                 <<" ">>},
     examples |-> {}]

EmptyValue ==
    [rules    |-> <<[key |-> <<"m", "u", "s", "t">>, value |-> <<>>],
          [key |-> <<"n", "o", "t">>, value |-> <<"N", "O", "T">>],
          [key |-> <<"m", "u", "s", "t", " ", "n", "o", "t">>, value |-> <<>>]>>,
     tokens   |-> {<<"m", "u", "s", "t">>,
                 <<"M", "u", "s", "t">>,
                 <<" ">>,
                 <<"n", "o", "t">>},
     examples |-> {}]

TrailingSpace ==
    [rules    |-> <<[key |-> <<"a">>, value |-> <<"X", " ">>],
          [key |-> <<"b">>, value |-> <<"Y", "\n">>],
          [key |-> <<"c">>, value |-> <<"Z">>]>>,
     tokens   |-> {<<"a">>,
                 <<"b">>,
                 <<"c">>,
                 <<" ">>},
     examples |-> {}]

DotAndSpace ==
    [rules    |-> <<[key |-> <<"a", ".">>, value |-> <<"X", " ">>],
          [key |-> <<" ", "b">>, value |-> <<"Y">>]>>,
     tokens   |-> {<<"a", ".">>,
                 <<"a", "b">>,
                 <<" ", "b">>,
                 <<" ">>,
                 <<".">>},
     examples |-> {}]

Overlap ==
    [rules    |-> <<[key |-> <<"a", " ", "b">>, value |-> <<"X">>],
          [key |-> <<"b">>, value |-> <<"Y">>],
          [key |-> <<"b", " ", "c">>, value |-> <<"Z">>]>>,
     tokens   |-> {<<"a">>,
                 <<"b">>,
                 <<"c">>,
                 <<" ">>},
     examples |-> {}]

EmptyKey ==
    [rules    |-> <<[key |-> <<>>, value |-> <<"E">>],
          [key |-> <<"a">>, value |-> <<"X">>]>>,
     tokens   |-> {<<"a">>,
                 <<" ">>,
                 <<"b">>,
                 <<"*">>},
     examples |-> {}]

NoRules ==
    [rules    |-> <<>>,
     tokens   |-> {<<"m", "u", "s", "t">>,
                 <<" ">>,
                 <<"a">>},
     examples |-> {}]

Scenarios == {MustAndMustNot, MayOnly, MustOnly, BoldMustNot, BoldAll, CapitalKey, CaseTwins, EmptyValue, TrailingSpace, DotAndSpace, Overlap, EmptyKey, NoRules}

\* the concatenations of at most n tokens
RECURSIVE TokenTexts(_, _)
TokenTexts(tokens, n) ==
    IF n = 0 THEN {<<>>}
    ELSE LET shorter == TokenTexts(tokens, n - 1)
         IN  shorter \cup {s \o k : s \in shorter, k \in tokens}

TextsOf(scenario) == scenario.examples \cup TokenTexts(scenario.tokens, MaxTokens)

(***************************************************************************)
(* The engine, step by step                                                *)
(***************************************************************************)
InitEngine(v) ==
    /\ variant = v
    /\ \E scenario \in Scenarios :
          /\ replacements = scenario.rules
          /\ text \in TextsOf(scenario)
    /\ pc = "start"
    /\ sortedKeys = <<>>
    /\ combinedPattern = <<>>
    /\ lookup = EmptyMap
    /\ counts = EmptyMap
    /\ reLastIndex = 0
    /\ lastIndex = 0
    /\ result = <<>>
    /\ matches = <<>>
    /\ loaded = FALSE
    /\ configFile = [exists |-> FALSE, content |-> <<>>]
    /\ debugEnabled = FALSE
    /\ sessionsWithCommand = {}
    /\ initialConfig = <<>>
    /\ parts = <<>>
    /\ event = <<>>
    /\ commandSince = {}
    /\ tabulated = <<>>
    /\ DecoderIdle

\* src/index.js:462-464, the empty mapping returns the text as it is
ReturnEarly ==
    /\ pc = "start"
    /\ Len(ObjectKeys(replacements)) = 0
    /\ result' = text
    /\ counts' = EmptyMap
    /\ pc' = "done"
    /\ UNCHANGED <<variant, text, replacements, sortedKeys, combinedPattern, lookup,
                   reLastIndex, lastIndex, matches>>
    /\ UNCHANGED pluginVars
    /\ UNCHANGED decoderVars

\* src/index.js:466-486, the keys sorted, the pattern and the lookup built
Prepare ==
    /\ pc = "start"
    /\ Len(ObjectKeys(replacements)) # 0
    /\ sortedKeys' = SortLongestFirst(ObjectKeys(replacements))
    /\ combinedPattern' = CombinedPattern(variant, sortedKeys')
    /\ lookup' = BuildLookup(sortedKeys', replacements, EmptyMap)
    /\ counts' = ScanStart.counts
    /\ reLastIndex' = ScanStart.reLastIndex
    /\ lastIndex' = ScanStart.lastIndex
    /\ result' = ScanStart.result
    /\ matches' = ScanStart.matches
    /\ pc' = "loop"
    /\ UNCHANGED <<variant, text, replacements>>
    /\ UNCHANGED pluginVars
    /\ UNCHANGED decoderVars

ScanState ==
    [reLastIndex |-> reLastIndex, lastIndex |-> lastIndex, result |-> result,
     counts |-> counts, matches |-> matches]

\* src/index.js:489-503, exec returned a match
ScanMatch ==
    /\ pc = "loop"
    /\ Len(matches) < MaxIterations(text)
    /\ LET m == Exec(combinedPattern, text, reLastIndex)
       IN  /\ m.found
           /\ LET st == ScanStep(variant, text, sortedKeys, lookup, ScanState, m)
              IN  /\ reLastIndex' = st.reLastIndex
                  /\ lastIndex' = st.lastIndex
                  /\ result' = st.result
                  /\ counts' = st.counts
                  /\ matches' = st.matches
    /\ UNCHANGED <<variant, text, replacements, pc, sortedKeys, combinedPattern, lookup>>
    /\ UNCHANGED pluginVars
    /\ UNCHANGED decoderVars

\* src/index.js:504-506, exec returned null: the tail is copied, the result returned
ScanEnd ==
    /\ pc = "loop"
    /\ ~Exec(combinedPattern, text, reLastIndex).found
    /\ result' = CopyTail(text, ScanState)
    /\ pc' = "done"
    /\ UNCHANGED <<variant, text, replacements, sortedKeys, combinedPattern, lookup,
                   counts, reLastIndex, lastIndex, matches>>
    /\ UNCHANGED pluginVars
    /\ UNCHANGED decoderVars

NextEngine == ReturnEarly \/ Prepare \/ ScanMatch \/ ScanEnd

Init == InitEngine("ts")

Next == NextEngine

Spec == Init /\ [][Next]_vars

InitCompiled == InitEngine("compiled")

SpecCompiled == InitCompiled /\ [][Next]_vars

(***************************************************************************)
(* The vocabulary of the claims, stated from the text and the rules alone  *)
(***************************************************************************)
Done == pc = "done"

s_you_must_not_fail == <<"y", "o", "u", " ", "m", "u", "s", "t", " ", "n", "o", "t", " ", "f", "a", "i", "l">>
s_you_MUST_NOT_fail == <<"y", "o", "u", " ", "M", "U", "S", "T", " ", "N", "O", "T", " ", "f", "a", "i", "l">>
s_maybe == <<"m", "a", "y", "b", "e">>
s_bold_MUST == <<"*", "*", "M", "U", "S", "T", "*", "*">>
s_must_not == <<"m", "u", "s", "t", " ", "n", "o", "t">>
s_bold_MUST_NOT == <<"*", "*", "M", "U", "S", "T", " ", "N", "O", "T", "*", "*">>
s_must_Must_MUST == <<"m", "u", "s", "t", " ", "M", "u", "s", "t", " ", "M", "U", "S", "T">>
s_MUST_MUST_MUST == <<"M", "U", "S", "T", " ", "M", "U", "S", "T", " ", "M", "U", "S", "T">>
s_must == <<"m", "u", "s", "t">>

\* phrase p stands at offset i of t, whatever the letter case
PhraseAt(p, t, i) ==
    /\ i + Len(p) <= Len(t)
    /\ toLowerCase(Slice(t, i, i + Len(p))) = toLowerCase(p)

Blocks(c) == IsLetter(c) \/ c = "*" \/ c = "_"

\* the character before offset i is no letter, * or _ (or there is none)
BoundaryBefore(t, i) == i = 0 \/ ~Blocks(t[i])

\* the character at offset e is no letter, * or _ (or there is none)
BoundaryAfter(t, e) == e = Len(t) \/ ~Blocks(t[e + 1])

\* the configured phrases that match at offset i with both boundaries
Candidates(t, obj, i) ==
    {a \in 1..Len(obj) :
        /\ PhraseAt(obj[a].key, t, i)
        /\ BoundaryBefore(t, i)
        /\ BoundaryAfter(t, i + Len(obj[a].key))}

LongestCandidate(t, obj, i) ==
    CHOOSE n \in {Len(obj[a].key) : a \in Candidates(t, obj, i)} :
        \A a \in Candidates(t, obj, i) : Len(obj[a].key) <= n

\* offset i lies inside the span of a match that began before it
Covered(ms, i) == \E k \in 1..Len(ms) : ms[k].index < i /\ i < ms[k].index + ms[k].length

\* the replacement configured for phrase p, whatever case its key is written
\* in: the last entry whose key is p up to letter case
ConfiguredFor(obj, p) ==
    LET same == {a \in 1..Len(obj) : toLowerCase(obj[a].key) = toLowerCase(p)}
    IN  obj[CHOOSE a \in same : \A b \in same : b <= a].value

RECURSIVE SumOver(_, _)
SumOver(m, keys) ==
    IF keys = {} THEN 0
    ELSE LET k == CHOOSE x \in keys : TRUE
         IN  m[k] + SumOver(m, keys \ {k})

\* the sum of all entries of a counts map
Total(m) == SumOver(m, DOMAIN m)

\* the matches of ms that were substituted
Substituted(ms) == SelectSeq(ms, LAMBDA m : m.substituted)

(***************************************************************************)
(* The replacement engine's claims                                         *)
(***************************************************************************)

\* C1: whenever several configured phrases match at one offset of the text
\* (case-insensitively, both boundaries satisfied), the match the scan takes
\* there is the longest of them and what is substituted there is the longest
\* one's replacement; every such offset the scan is not already past gets its
\* match; with must -> MUST and must not -> MUST NOT, "you must not fail"
\* becomes "you MUST NOT fail".
LongestMatchPrecedence ==
    /\ \A k \in 1..Len(matches) :
          LET m == matches[k]
          IN  /\ Candidates(text, replacements, m.index) # {}
              /\ m.length = LongestCandidate(text, replacements, m.index)
              /\ m.substituted => m.replacement = ConfiguredFor(replacements, m.matched)
    /\ Done =>
          \A i \in 0..Len(text) :
              (Candidates(text, replacements, i) # {} /\ ~Covered(matches, i)) =>
                  \E k \in 1..Len(matches) :
                      /\ matches[k].index = i
                      /\ matches[k].length = LongestCandidate(text, replacements, i)
    /\ (Done /\ replacements = MustAndMustNot.rules /\ text = s_you_must_not_fail) =>
          result = s_you_MUST_NOT_fail

\* two phrases matched at one offset and the longer one was substituted
LongestMatchWitness ==
    /\ Done
    /\ text = s_you_must_not_fail
    /\ \E k \in 1..Len(matches) :
          /\ Cardinality(Candidates(text, replacements, matches[k].index)) >= 2
          /\ matches[k].substituted
          /\ matches[k].matched = s_must_not

\* C2: a span is substituted only if the character before it is no letter,
\* * or _ and the character after it is no letter, * or _ (the ends of the
\* text are boundaries); may -> MAY leaves "maybe" as it is and must -> MUST
\* leaves "**MUST**" as it is, with nothing counted.
BoundarySafety ==
    /\ \A k \in 1..Len(matches) :
          matches[k].substituted =>
              /\ BoundaryBefore(text, matches[k].index)
              /\ BoundaryAfter(text, matches[k].index + matches[k].length)
    /\ (Done /\ replacements = MayOnly.rules /\ text = s_maybe) =>
          (result = text /\ counts = EmptyMap)
    /\ (Done /\ replacements = MustOnly.rules /\ text = s_bold_MUST) =>
          (result = text /\ counts = EmptyMap)

\* C3: with must not -> **MUST NOT** (alone, or with must -> **MUST** and
\* not -> **NOT**), "must not" becomes "**MUST NOT**", and for every text the
\* engine applied to its own output returns that output unchanged with empty
\* counts.
NoCascadingRematch ==
    (Done /\ replacements \in {BoldMustNot.rules, BoldAll.rules}) =>
        /\ text = s_must_not => result = s_bold_MUST_NOT
        /\ LET again == applyReplacements(variant, result, replacements)
           IN  /\ again.returned
               /\ again.result = result
               /\ again.counts = EmptyMap

\* C4: whatever letter case a key is written in and whatever letter case its
\* occurrence in the text has, the scan matches the occurrence, finds the
\* replacement configured for the phrase and tallies it under the lowercased
\* phrase alone; "must Must MUST" becomes "MUST MUST MUST" with counts
\* {must: 3}, under the key "must" and under the key "Must".
CaseInsensitiveMatching ==
    /\ \A k \in 1..Len(matches) :
          LET m == matches[k]
          IN  /\ m.found
              /\ m.replacement = ConfiguredFor(replacements, m.matched)
              /\ m.substituted => toLowerCase(m.matched) \in DOMAIN counts
    /\ DOMAIN counts \subseteq {toLowerCase(replacements[a].key) : a \in 1..Len(replacements)}
    /\ \A key \in DOMAIN counts :
          counts[key] = Len(SelectSeq(matches,
                              LAMBDA m : m.substituted /\ toLowerCase(m.matched) = key))
    /\ Done =>
          \A i \in 0..Len(text) : \A a \in 1..Len(replacements) :
              ( /\ PhraseAt(replacements[a].key, text, i)
                /\ BoundaryBefore(text, i)
                /\ BoundaryAfter(text, i + Len(replacements[a].key))
                /\ ~Covered(matches, i) ) =>
                  \E k \in 1..Len(matches) : matches[k].index = i
    /\ (Done /\ replacements \in {MustOnly.rules, CapitalKey.rules}
             /\ text = s_must_Must_MUST) =>
          (result = s_MUST_MUST_MUST /\ counts = (s_must :> 3))

\* three letter-case variants of one phrase, written with a capital in the
\* configuration, were substituted and tallied under one key
CaseInsensitiveWitness ==
    /\ Done
    /\ replacements = CapitalKey.rules
    /\ text = s_must_Must_MUST
    /\ Len(Substituted(matches)) = 3
    /\ counts = (s_must :> 3)

\* C5: every match the scan finds is substituted by its rule's replacement
\* and adds one to exactly one entry of counts, so the counts sum to the
\* number of substitutions, which is the number of matches, and no entry
\* is below 1.
CountAccuracy ==
    /\ \A k \in 1..Len(matches) :
          /\ matches[k].substituted
          /\ matches[k].replacement = ConfiguredFor(replacements, matches[k].matched)
    /\ Total(counts) = Len(Substituted(matches))
    /\ Len(Substituted(matches)) = Len(matches)
    /\ \A key \in DOMAIN counts : counts[key] >= 1

\* the text with each span the scan took replaced by what was put there
\* (its replacement when substituted, the span itself when not), and all
\* else copied
RECURSIVE SpansReplaced(_, _, _)
SpansReplaced(t, ms, from) ==
    IF ms = <<>> THEN Slice(t, from, Len(t))
    ELSE LET m == Head(ms)
         IN  Slice(t, from, m.index)
             \o (IF m.substituted THEN m.replacement ELSE m.matched)
             \o SpansReplaced(t, Tail(ms), m.index + m.length)

\* the same, one space after a span left out where the span's replacement
\* ends in white space
RECURSIVE SpansReplacedSpaceCollapsed(_, _, _)
SpansReplacedSpaceCollapsed(t, ms, from) ==
    IF ms = <<>> THEN Slice(t, from, Len(t))
    ELSE LET m == Head(ms)
             end == m.index + m.length
             skip == /\ m.substituted
                     /\ m.replacement # <<>>
                     /\ m.replacement[Len(m.replacement)] \in WhiteSpace
                     /\ end < Len(t)
                     /\ t[end + 1] = " "
         IN  Slice(t, from, m.index)
             \o (IF m.substituted THEN m.replacement ELSE m.matched)
             \o SpansReplacedSpaceCollapsed(t, Tail(ms), IF skip THEN end + 1 ELSE end)

\* C6, as claimed: the output is the input with exactly the substituted
\* spans replaced by their replacements; every character outside them is in
\* the output, unchanged and in order; a text with no match, or an empty
\* mapping, comes back identical.
PassThroughExact ==
    Done =>
        /\ result = SpansReplaced(text, matches, 0)
        /\ Substituted(matches) = <<>> => result = text

\* C6, amended: as claimed, except that one space directly after a
\* substituted span is left out when that span's replacement ends in white
\* space.
PassThroughButCollapsedSpace ==
    Done =>
        /\ result = SpansReplacedSpaceCollapsed(text, matches, 0)
        /\ Substituted(matches) = <<>> => result = text

\* a text with a match and unmatched characters on both sides of it, and one
\* where the space after a substituted span was left out
PassThroughWitness ==
    /\ Done
    /\ \E k \in 1..Len(matches) :
          /\ matches[k].substituted
          /\ matches[k].consumed
          /\ matches[k].index > 0
          /\ matches[k].index + matches[k].length + 1 < Len(text)

(***************************************************************************)
(* The configuration decoder: parseJSONC, src/index.js:355-392             *)
(***************************************************************************)
Quote == "\""

\* content.split("\n"): the lines from offset i on
RECURSIVE SplitFrom(_, _)
SplitFrom(content, i) ==
    LET breaks == {j \in i..Len(content) : content[j] = "\n"}
    IN  IF breaks = {} THEN <<SubSeq(content, i, Len(content))>>
        ELSE <<SubSeq(content, i, MinOf(breaks) - 1)>> \o SplitFrom(content, MinOf(breaks) + 1)

SplitLines(content) == SplitFrom(content, 1)

\* lines.join("\n")
RECURSIVE JoinLines(_)
JoinLines(lines) ==
    IF Len(lines) = 1 THEN lines[1]
    ELSE lines[1] \o <<"\n">> \o JoinLines(Tail(lines))

\* the scan of one line, src/index.js:361-381: the line cut at the first //
\* met outside a string.  The scan goes from one backslash, quote or // to
\* the next: the character after a backslash is passed over (escapeNext),
\* a quote flips inString, and no other character changes the scan's state.
RECURSIVE StripLineFrom(_, _, _)
StripLineFrom(line, i, inString) ==
    LET stops == {j \in i..Len(line) :
                    \/ line[j] = "\\"
                    \/ line[j] = Quote
                    \/ ~inString /\ line[j] = "/" /\ j + 1 <= Len(line) /\ line[j + 1] = "/"}
    IN  IF stops = {} THEN line
        ELSE LET j == MinOf(stops)
             IN  IF line[j] = "\\" THEN StripLineFrom(line, j + 2, inString)
                 ELSE IF line[j] = Quote THEN StripLineFrom(line, j + 1, ~inString)
                 ELSE SubSeq(line, 1, j - 1)

StripLineComments(content) ==
    Let(SplitLines(content), LAMBDA lines :
        Let([k \in 1..Len(lines) |-> StripLineFrom(lines[k], 1, FALSE)], LAMBDA strippedLines :
            JoinLines(strippedLines)))

\* stripped.replace(/\/\*[\s\S]*?\*\//g, "")
RECURSIVE StripBlockComments(_)
StripBlockComments(t) ==
    LET opens == {i \in 1..Len(t) - 1 : t[i] = "/" /\ t[i + 1] = "*"}
    IN  IF opens = {} THEN t
        ELSE LET i == MinOf(opens)
                 closes == {j \in i + 2..Len(t) - 1 : t[j] = "*" /\ t[j + 1] = "/"}
             IN  IF closes = {} THEN t
                 ELSE SubSeq(t, 1, i - 1)
                      \o Let(SubSeq(t, MinOf(closes) + 2, Len(t)),
                             LAMBDA rest : StripBlockComments(rest))

\* a comma followed by white space only and then } or ]
IsTrailingComma(t, i) ==
    /\ t[i] = ","
    /\ \E j \in i + 1..Len(t) :
          /\ t[j] \in {"}", "]"}
          /\ \A k \in i + 1..j - 1 : t[k] \in WhiteSpace \cup {"\r"}

\* noMultiLine.replace(/,(\s*[}\]])/g, "$1")
RECURSIVE StripTrailingCommas(_)
StripTrailingCommas(t) ==
    LET commas == {i \in 1..Len(t) : IsTrailingComma(t, i)}
    IN  IF commas = {} THEN t
        ELSE LET i == MinOf(commas)
             IN  SubSeq(t, 1, i - 1)
                 \o Let(SubSeq(t, i + 1, Len(t)), LAMBDA rest : StripTrailingCommas(rest))

(***************************************************************************)
(* JSON.parse, for the documents of the model: objects, strings, true,     *)
(* false and null.  A value is [type, str, bool, entries]; a parse is      *)
(* [ok, value, next], ok FALSE where JSON.parse throws a SyntaxError.      *)
(***************************************************************************)
JsonWhiteSpace == {" ", "\n", "\t", "\r"}

JsonNull == [type |-> "null", str |-> <<>>, bool |-> FALSE, entries |-> <<>>]
JsonBool(b) == [type |-> "bool", str |-> <<>>, bool |-> b, entries |-> <<>>]
JsonString(str) == [type |-> "string", str |-> str, bool |-> FALSE, entries |-> <<>>]
JsonObject(entries) == [type |-> "object", str |-> <<>>, bool |-> FALSE, entries |-> entries]

ParseFailed == [ok |-> FALSE, value |-> JsonNull, next |-> 0]
Parsed(v, next) == [ok |-> TRUE, value |-> v, next |-> next]

\* the first offset from i on that holds no white space (Len(t) + 1 if none)
SkipWhiteSpace(t, i) == MinOf({j \in i..Len(t) + 1 : j > Len(t) \/ t[j] \notin JsonWhiteSpace})

StartsWith(t, i, word) ==
    /\ i + Len(word) - 1 <= Len(t)
    /\ SubSeq(t, i, i + Len(word) - 1) = word

\* the characters of a string literal from offset i up to its closing quote
RECURSIVE ParseStringFrom(_, _, _)
ParseStringFrom(t, i, acc) ==
    IF i > Len(t) \/ t[i] = "\n" THEN ParseFailed
    ELSE IF t[i] = Quote THEN Parsed(JsonString(acc), i + 1)
    ELSE IF t[i] = "\\"
         THEN IF i + 1 <= Len(t) /\ t[i + 1] \in {Quote, "\\", "/"}
              THEN ParseStringFrom(t, i + 2, Append(acc, t[i + 1]))
              ELSE IF i + 1 <= Len(t) /\ t[i + 1] = "n"
              THEN ParseStringFrom(t, i + 2, Append(acc, "\n"))
              ELSE ParseFailed
    ELSE ParseStringFrom(t, i + 1, Append(acc, t[i]))

\* an object's own property: a later duplicate key replaces the value and
\* keeps the first one's place
SetEntry(entries, k, v) ==
    IF \E a \in 1..Len(entries) : entries[a].key = k
    THEN [a \in 1..Len(entries) |->
            IF entries[a].key = k THEN [key |-> k, value |-> v] ELSE entries[a]]
    ELSE Append(entries, [key |-> k, value |-> v])

RECURSIVE ParseValue(_, _)
RECURSIVE ParseMembers(_, _, _)

\* the members of an object from offset start (past white space) on, after
\* the members read so far
ParseMembers(t, start, read) ==
    Let(<<start, read>>, LAMBDA at :
        LET i == at[1]
            entries == at[2]
            k == ParseStringFrom(t, i + 1, <<>>)
            colon == SkipWhiteSpace(t, k.next)
            v == ParseValue(t, SkipWhiteSpace(t, colon + 1))
            after == SkipWhiteSpace(t, v.next)
        IN  IF i > Len(t) \/ t[i] # Quote THEN ParseFailed
            ELSE IF ~k.ok THEN ParseFailed
            ELSE IF colon > Len(t) \/ t[colon] # ":" THEN ParseFailed
            ELSE IF ~v.ok THEN ParseFailed
            ELSE IF after > Len(t) THEN ParseFailed
            ELSE IF t[after] = "}"
            THEN Parsed(JsonObject(SetEntry(entries, k.value.str, v.value)), after + 1)
            ELSE IF t[after] = ","
            THEN ParseMembers(t, SkipWhiteSpace(t, after + 1),
                              SetEntry(entries, k.value.str, v.value))
            ELSE ParseFailed)

ParseValue(t, i) ==
    IF i > Len(t) THEN ParseFailed
    ELSE IF t[i] = "{"
         THEN LET first == SkipWhiteSpace(t, i + 1)
              IN  IF first <= Len(t) /\ t[first] = "}"
                  THEN Parsed(JsonObject(<<>>), first + 1)
                  ELSE ParseMembers(t, first, <<>>)
    ELSE IF t[i] = Quote THEN ParseStringFrom(t, i + 1, <<>>)
    ELSE IF StartsWith(t, i, <<"t", "r", "u", "e">>) THEN Parsed(JsonBool(TRUE), i + 4)
    ELSE IF StartsWith(t, i, <<"f", "a", "l", "s", "e">>) THEN Parsed(JsonBool(FALSE), i + 5)
    ELSE IF StartsWith(t, i, <<"n", "u", "l", "l">>) THEN Parsed(JsonNull, i + 4)
    ELSE ParseFailed

JSONParse(t) ==
    Let(ParseValue(t, SkipWhiteSpace(t, 1)), LAMBDA v :
        IF v.ok /\ SkipWhiteSpace(t, v.next) > Len(t) THEN v ELSE ParseFailed)

\* parseJSONC: ok is FALSE where it throws
parseJSONC(content) ==
    Let(StripLineComments(content), LAMBDA stripped :
        Let(StripBlockComments(stripped), LAMBDA noMultiLine :
            Let(StripTrailingCommas(noMultiLine), LAMBDA noTrailingCommas :
                JSONParse(noTrailingCommas))))

(***************************************************************************)
(* Configuration files                                                     *)
(***************************************************************************)
\* the file ensureConfigExists writes, src/index.js:305-324
DEFAULT_CONFIG ==
    <<"{", "\n", " ", " ", "/", "/", " ", "U", "n", "c", "o", "m", "m", "e", "n", "t", " ",
      "t", "o", " ", "e", "n", "a", "b", "l", "e", " ", "d", "e", "b", "u", "g", " ", "l", "o",
      "g", "g", "i", "n", "g", " ", "(", "v", "i", "e", "w", " ", "i", "n", ":", " ", "~", "/",
      ".", "l", "o", "c", "a", "l", "/", "s", "h", "a", "r", "e", "/", "o", "p", "e", "n", "c",
      "o", "d", "e", "/", "l", "o", "g", "/", "d", "e", "v", ".", "l", "o", "g", ")", "\n",
      " ", " ", "/", "/", " ", "F", "i", "l", "t", "e", "r", " ", "w", "i", "t", "h", ":", " ",
      "g", "r", "e", "p", " ", "\"", "s", "e", "r", "v", "i", "c", "e", "=", "M", "U", "S",
      "T", "-", "h", "a", "v", "e", "-", "p", "l", "u", "g", "i", "n", "\"", " ", "~", "/",
      ".", "l", "o", "c", "a", "l", "/", "s", "h", "a", "r", "e", "/", "o", "p", "e", "n", "c",
      "o", "d", "e", "/", "l", "o", "g", "/", "d", "e", "v", ".", "l", "o", "g", "\n", " ",
      " ", "/", "/", " ", "\"", "d", "e", "b", "u", "g", "\"", ":", " ", "t", "r", "u", "e",
      ",", "\n", "\n", " ", " ", "\"", "r", "e", "p", "l", "a", "c", "e", "m", "e", "n", "t",
      "s", "\"", ":", " ", "{", "\n", " ", " ", " ", " ", "\"", "m", "u", "s", "t", "\"", ":",
      " ", "\"", "M", "U", "S", "T", "\"", ",", "\n", " ", " ", " ", " ", "\"", "m", "u", "s",
      "t", " ", "n", "o", "t", "\"", ":", " ", "\"", "M", "U", "S", "T", " ", "N", "O", "T",
      "\"", ",", "\n", " ", " ", " ", " ", "\"", "r", "e", "q", "u", "i", "r", "e", "d", "\"",
      ":", " ", "\"", "R", "E", "Q", "U", "I", "R", "E", "D", "\"", ",", "\n", " ", " ", " ",
      " ", "\"", "s", "h", "a", "l", "l", "\"", ":", " ", "\"", "S", "H", "A", "L", "L", "\"",
      ",", "\n", " ", " ", " ", " ", "\"", "s", "h", "a", "l", "l", " ", "n", "o", "t", "\"",
      ":", " ", "\"", "S", "H", "A", "L", "L", " ", "N", "O", "T", "\"", ",", "\n", " ", " ",
      " ", " ", "\"", "s", "h", "o", "u", "l", "d", "\"", ":", " ", "\"", "S", "H", "O", "U",
      "L", "D", "\"", ",", "\n", " ", " ", " ", " ", "\"", "s", "h", "o", "u", "l", "d", " ",
      "n", "o", "t", "\"", ":", " ", "\"", "S", "H", "O", "U", "L", "D", " ", "N", "O", "T",
      "\"", ",", "\n", " ", " ", " ", " ", "\"", "r", "e", "c", "o", "m", "m", "e", "n", "d",
      "e", "d", "\"", ":", " ", "\"", "R", "E", "C", "O", "M", "M", "E", "N", "D", "E", "D",
      "\"", ",", "\n", " ", " ", " ", " ", "\"", "n", "o", "t", " ", "r", "e", "c", "o", "m",
      "m", "e", "n", "d", "e", "d", "\"", ":", " ", "\"", "N", "O", "T", " ", "R", "E", "C",
      "O", "M", "M", "E", "N", "D", "E", "D", "\"", ",", "\n", " ", " ", " ", " ", "\"", "m",
      "a", "y", "\"", ":", " ", "\"", "M", "A", "Y", "\"", ",", "\n", " ", " ", " ", " ", "\"",
      "o", "p", "t", "i", "o", "n", "a", "l", "\"", ":", " ", "\"", "O", "P", "T", "I", "O",
      "N", "A", "L", "\"", "\n", " ", " ", "}", "\n", "}", "\n">>

\* a file cut short while being edited: no valid JSON
DocTruncated ==
    <<"{", "\n", " ", " ", "\"", "r", "e", "p", "l", "a", "c", "e", "m", "e", "n", "t", "s",
      "\"", ":", " ", "{", "\n", " ", " ", " ", " ", "\"", "f", "a", "i", "l", "\"", ":", " ",
      "\"", "F", "A", "I", "L", "\"", ",", "\n">>

\* valid, with no replacements field
DocDebugOnly ==
    <<"{", " ", "\"", "d", "e", "b", "u", "g", "\"", ":", " ", "t", "r", "u", "e", " ", "}">>

\* comments, a trailing comma, debug on
DocBold ==
    <<"{", "\n", " ", " ", "/", "*", " ", "b", "o", "l", "d", " ", "*", "/", "\n", " ", " ",
      "\"", "d", "e", "b", "u", "g", "\"", ":", " ", "t", "r", "u", "e", ",", " ", "/", "/",
      " ", "o", "n", "\n", " ", " ", "\"", "r", "e", "p", "l", "a", "c", "e", "m", "e", "n",
      "t", "s", "\"", ":", " ", "{", "\n", " ", " ", " ", " ", "\"", "m", "u", "s", "t", " ",
      "n", "o", "t", "\"", ":", " ", "\"", "*", "*", "M", "U", "S", "T", " ", "N", "O", "T",
      "*", "*", "\"", ",", "\n", " ", " ", " ", " ", "\"", "f", "a", "i", "l", "\"", ":", " ",
      "\"", "F", "A", "I", "L", "\"", ",", "\n", " ", " ", "}", ",", "\n", "}">>

\* one rule, debug off
DocFailOnly ==
    <<"{", "\"", "d", "e", "b", "u", "g", "\"", ":", " ", "f", "a", "l", "s", "e", ",", " ",
      "\"", "r", "e", "p", "l", "a", "c", "e", "m", "e", "n", "t", "s", "\"", ":", " ", "{",
      "\"", "f", "a", "i", "l", "\"", ":", " ", "\"", "F", "A", "I", "L", "\"", "}", "}">>

\* an empty mapping
DocEmptyMapping ==
    <<"{", "\"", "r", "e", "p", "l", "a", "c", "e", "m", "e", "n", "t", "s", "\"", ":", " ",
      "{", "}", "}">>

\* valid JSON that is no object
DocNull ==
    <<"n", "u", "l", "l">>

Documents == {DEFAULT_CONFIG, DocTruncated, DocDebugOnly, DocBold, DocFailOnly, DocEmptyMapping, DocNull}

(***************************************************************************)
(* loadConfig, src/index.js:419-442                                        *)
(***************************************************************************)
\* src/index.js:288-300
RFC2119_DEFAULTS ==
    <<[key |-> <<"m", "u", "s", "t">>,
       value |-> <<"M", "U", "S", "T">>],
      [key |-> <<"m", "u", "s", "t", " ", "n", "o", "t">>,
       value |-> <<"M", "U", "S", "T", " ", "N", "O", "T">>],
      [key |-> <<"r", "e", "q", "u", "i", "r", "e", "d">>,
       value |-> <<"R", "E", "Q", "U", "I", "R", "E", "D">>],
      [key |-> <<"s", "h", "a", "l", "l">>,
       value |-> <<"S", "H", "A", "L", "L">>],
      [key |-> <<"s", "h", "a", "l", "l", " ", "n", "o", "t">>,
       value |-> <<"S", "H", "A", "L", "L", " ", "N", "O", "T">>],
      [key |-> <<"s", "h", "o", "u", "l", "d">>,
       value |-> <<"S", "H", "O", "U", "L", "D">>],
      [key |-> <<"s", "h", "o", "u", "l", "d", " ", "n", "o", "t">>,
       value |-> <<"S", "H", "O", "U", "L", "D", " ", "N", "O", "T">>],
      [key |-> <<"r", "e", "c", "o", "m", "m", "e", "n", "d", "e", "d">>,
       value |-> <<"R", "E", "C", "O", "M", "M", "E", "N", "D", "E", "D">>],
      [key |-> <<"n", "o", "t", " ", "r", "e", "c", "o", "m", "m", "e", "n", "d", "e", "d">>,
       value |-> <<"N", "O", "T", " ", "R", "E", "C", "O", "M", "M", "E", "N", "D", "E", "D">>],
      [key |-> <<"m", "a", "y">>,
       value |-> <<"M", "A", "Y">>],
      [key |-> <<"o", "p", "t", "i", "o", "n", "a", "l">>,
       value |-> <<"O", "P", "T", "I", "O", "N", "A", "L">>]>>

s_debug == <<"d", "e", "b", "u", "g">>
s_replacements == <<"r", "e", "p", "l", "a", "c", "e", "m", "e", "n", "t", "s">>

NoFile == [exists |-> FALSE, content |-> <<>>]
FileWith(content) == [exists |-> TRUE, content |-> content]

\* the states of the file at CONFIG_PATH
FileStates == {NoFile} \cup {FileWith(d) : d \in Documents}

HasProperty(v, name) == v.type = "object" /\ \E a \in 1..Len(v.entries) : v.entries[a].key = name

Property(v, name) == v.entries[CHOOSE a \in 1..Len(v.entries) : v.entries[a].key = name].value

\* JavaScript truthiness of a decoded value
JsonTruthy(v) ==
    CASE v.type = "null"   -> FALSE
      [] v.type = "bool"   -> v.bool
      [] v.type = "string" -> v.str # <<>>
      [] OTHER             -> TRUE

\* a decoded mapping as the engine's second argument.  The documents of the
\* model hold string values only; a value that is no object has no keys.
AsReplacements(v) ==
    IF v.type = "object"
    THEN [a \in 1..Len(v.entries) |-> [key |-> v.entries[a].key, value |-> v.entries[a].value.str]]
    ELSE <<>>

defaultConfig == [threw |-> FALSE, warned |-> FALSE, debug |-> FALSE, replacements |-> RFC2119_DEFAULTS]

\* the try block, src/index.js:426-436: threw is TRUE where it throws
\* (parseJSONC's SyntaxError, or the TypeError of reading a property of null)
loadConfigTry(file) ==
    IF ~file.exists THEN defaultConfig
    ELSE Let(parseJSONC(file.content), LAMBDA parsed :
             IF ~parsed.ok \/ parsed.value.type = "null"
             THEN [threw |-> TRUE, warned |-> FALSE, debug |-> FALSE, replacements |-> <<>>]
             ELSE [threw |-> FALSE,
                   warned |-> FALSE,
                   debug |-> /\ HasProperty(parsed.value, s_debug)
                             /\ Property(parsed.value, s_debug) = JsonBool(TRUE),
                   replacements |->
                       IF /\ HasProperty(parsed.value, s_replacements)
                          /\ JsonTruthy(Property(parsed.value, s_replacements))
                       THEN AsReplacements(Property(parsed.value, s_replacements))
                       ELSE <<>>])

\* loadConfig without its catch clause
loadConfigUncaught(file) == loadConfigTry(file)

\* loadConfig: the catch clause writes a warning and returns the defaults
loadConfig(file) ==
    Let(loadConfigTry(file), LAMBDA tried :
        IF tried.threw THEN [defaultConfig EXCEPT !.warned = TRUE] ELSE tried)

\* loadConfig over the files of the model
LoadedConfig == [f \in FileStates |-> loadConfig(f)]

(***************************************************************************)
(* The plugin: Replacer and its hooks, src/index.js:512-580                *)
(***************************************************************************)
Sessions == {"s1", "s2"}

s_should_not_fail == <<"s", "h", "o", "u", "l", "d", " ", "n", "o", "t", " ", "f", "a", "i", "l">>
s_Maybe_it_MUST == <<"M", "a", "y", "b", "e", " ", "i", "t", " ", "M", "U", "S", "T">>

\* a part a user typed
UserText(t) == [type |-> "text", hasText |-> TRUE, text |-> t, synthetic |-> FALSE]

\* a text part the host made: a slash command's output, an attached file's content
SyntheticText(t) == [type |-> "text", hasText |-> TRUE, text |-> t, synthetic |-> TRUE]

\* a part of another type, here with a text field of its own
FilePart(t) == [type |-> "file", hasText |-> TRUE, text |-> t, synthetic |-> FALSE]

\* a text part whose text is no string
TextlessPart == [type |-> "text", hasText |-> FALSE, text |-> <<>>, synthetic |-> FALSE]

PartTexts == {s_you_must_not_fail, s_should_not_fail, s_Maybe_it_MUST}

Messages ==
    { <<UserText(s_you_must_not_fail)>>,
      <<UserText(s_should_not_fail), SyntheticText(s_you_must_not_fail),
        FilePart(s_you_must_not_fail)>>,
      <<SyntheticText(s_should_not_fail)>>,
      <<TextlessPart, UserText(s_Maybe_it_MUST)>> }

\* the rule sets the files of the model decode to
ConfigRuleSets == {LoadedConfig[f].replacements : f \in FileStates}

\* applyReplacements (the source form) over the rule sets and texts of the model
Rewritten == [c \in ConfigRuleSets, t \in PartTexts |-> applyReplacements("ts", t, c)]

\* the marks left when a chat.message finds its session marked and keeps the mark
MarksKept(marks, s) == marks

\* sessionsWithCommand.delete(input.sessionID), src/index.js:538
MarksAfterMessage(marks, s) == marks \ {s}

\* the configuration loaded when the plugin started
ConfigFromStartup(file, startup) == startup

\* const config = loadConfig(), src/index.js:544
ConfigForMessage(file, startup) == tabulated.config[file]

\* the test of src/index.js:558
IsUserTyped(part) == part.type = "text" /\ part.hasText /\ ~part.synthetic

\* the loop of src/index.js:557-568 on one part
RewritePart(part, rules) ==
    IF IsUserTyped(part)
    THEN [part EXCEPT !.text = tabulated.rewritten[rules, part.text].result]
    ELSE part

RECURSIVE SumCounts(_, _)
SumCounts(ps, rules) ==
    IF ps = <<>> THEN 0
    ELSE (IF IsUserTyped(Head(ps))
          THEN Total(tabulated.rewritten[rules, Head(ps).text].counts) ELSE 0)
         + SumCounts(Tail(ps), rules)

\* log(level, message): dropped when the level is debug and debugEnabled is
\* off, src/index.js:335
Log(enabled, level, message) ==
    IF ~enabled /\ level = "debug" THEN <<>> ELSE <<[level |-> level, message |-> message]>>

NoEvent ==
    [kind |-> "none", sessionID |-> "", commandBefore |-> FALSE, skipped |-> FALSE,
     completed |-> FALSE, input |-> <<>>, fileSeen |-> NoFile, config |-> defaultConfig,
     total |-> 0, logs |-> <<>>]

InitPlugin ==
    /\ loaded = FALSE
    /\ configFile \in FileStates
    /\ debugEnabled = FALSE
    /\ sessionsWithCommand = {}
    /\ initialConfig = defaultConfig
    /\ parts = <<>>
    /\ event = NoEvent
    /\ commandSince = {}
    /\ tabulated = [config |-> LoadedConfig, rewritten |-> Rewritten]
    /\ DecoderIdle
    /\ variant = "ts"
    /\ text = <<>>
    /\ replacements = <<>>
    /\ pc = "idle"
    /\ sortedKeys = <<>>
    /\ combinedPattern = <<>>
    /\ lookup = EmptyMap
    /\ counts = EmptyMap
    /\ reLastIndex = 0
    /\ lastIndex = 0
    /\ result = <<>>
    /\ matches = <<>>

\* Replacer, src/index.js:512-527: ensureConfigExists writes the default
\* file where there is none (or fails to, and goes on), then the first load
LoadPlugin ==
    /\ ~loaded
    /\ \E written \in BOOLEAN :
          /\ configFile' = IF ~configFile.exists /\ written
                           THEN FileWith(DEFAULT_CONFIG) ELSE configFile
          /\ written = ~configFile.exists \/ ~written
    /\ initialConfig' = tabulated.config[configFile']
    /\ debugEnabled' = initialConfig'.debug
    /\ loaded' = TRUE
    /\ UNCHANGED <<sessionsWithCommand, parts, event, commandSince, tabulated>>
    /\ UNCHANGED engineVars
    /\ UNCHANGED decoderVars

\* the user saves, or removes, the configuration file
EditConfig ==
    /\ \E f \in FileStates : f # configFile /\ configFile' = f
    /\ UNCHANGED <<loaded, debugEnabled, sessionsWithCommand, initialConfig, parts, event,
                   commandSince, tabulated>>
    /\ UNCHANGED engineVars
    /\ UNCHANGED decoderVars

\* "command.execute.before", src/index.js:530-533
CommandExecuteBefore(s) ==
    /\ loaded
    /\ sessionsWithCommand' = sessionsWithCommand \cup {s}
    /\ commandSince' = commandSince \cup {s}
    /\ event' = [NoEvent EXCEPT !.kind = "command", !.sessionID = s, !.completed = TRUE,
                                !.fileSeen = configFile,
                                !.logs = Log(debugEnabled, "debug", "Tracking command execution")]
    /\ UNCHANGED <<loaded, configFile, debugEnabled, initialConfig, parts, tabulated>>
    /\ UNCHANGED engineVars
    /\ UNCHANGED decoderVars

\* "chat.message", src/index.js:535-578
ChatMessage(s, input) ==
    /\ loaded
    /\ commandSince' = commandSince \ {s}
    /\ IF s \in sessionsWithCommand
       THEN /\ sessionsWithCommand' = MarksAfterMessage(sessionsWithCommand, s)
            /\ parts' = input
            /\ event' = [NoEvent EXCEPT !.kind = "message", !.sessionID = s,
                                        !.commandBefore = (s \in commandSince),
                                        !.skipped = TRUE, !.completed = TRUE,
                                        !.input = input, !.fileSeen = configFile,
                                        !.logs = Log(debugEnabled, "debug", "Skipping replacements")]
            /\ UNCHANGED debugEnabled
       ELSE LET config == ConfigForMessage(configFile, initialConfig)
                seen == [NoEvent EXCEPT !.kind = "message", !.sessionID = s,
                                        !.commandBefore = (s \in commandSince),
                                        !.input = input, !.fileSeen = configFile,
                                        !.config = config]
            IN  /\ UNCHANGED sessionsWithCommand
                /\ IF config.threw
                   THEN \* loadConfig threw: the hook's promise is rejected
                        /\ parts' = input
                        /\ event' = seen
                        /\ UNCHANGED debugEnabled
                   ELSE IF Len(ObjectKeys(config.replacements)) = 0
                   THEN /\ debugEnabled' = config.debug
                        /\ parts' = input
                        /\ event' = [seen EXCEPT !.completed = TRUE,
                                        !.logs = Log(config.debug, "debug", "No replacements configured")]
                   ELSE LET total == SumCounts(input, config.replacements)
                        IN  /\ debugEnabled' = config.debug
                            /\ parts' = [i \in 1..Len(input) |->
                                            RewritePart(input[i], config.replacements)]
                            /\ event' = [seen EXCEPT !.completed = TRUE, !.total = total,
                                            !.logs = IF total > 0
                                                     THEN Log(config.debug, "info", "Applied")
                                                     ELSE <<>>]
    /\ UNCHANGED <<loaded, configFile, initialConfig, tabulated>>
    /\ UNCHANGED engineVars
    /\ UNCHANGED decoderVars

NextPlugin ==
    \/ LoadPlugin
    \/ EditConfig
    \/ \E s \in Sessions : CommandExecuteBefore(s)
    \/ \E s \in Sessions, input \in Messages : ChatMessage(s, input)

SpecPlugin == InitPlugin /\ [][NextPlugin]_vars

(***************************************************************************)
(* Properties of the plugin                                                *)
(***************************************************************************)
\* a chat.message was handled and not skipped for a command
Processed == event.kind = "message" /\ ~event.skipped

\* the parts of a message after applyReplacements (the source form) on each
\* user-typed part and on no other
PartsRewritten(input, rules) ==
    [i \in 1..Len(input) |->
        IF IsUserTyped(input[i])
        THEN [input[i] EXCEPT !.text = Rewritten[rules, input[i].text].result]
        ELSE input[i]]

RECURSIVE CountsOf(_, _)
CountsOf(input, rules) ==
    IF input = <<>> THEN 0
    ELSE (IF IsUserTyped(Head(input)) THEN Total(Rewritten[rules, Head(input).text].counts) ELSE 0)
         + CountsOf(Tail(input), rules)

\* the documents parseJSONC throws on
Undecodable == {d \in Documents : ~parseJSONC(d).ok}

\* the documents that decode to an object with no replacements field
WithoutReplacements ==
    {d \in Documents : /\ parseJSONC(d).ok
                       /\ parseJSONC(d).value.type = "object"
                       /\ ~HasProperty(parseJSONC(d).value, s_replacements)}

\* C7: whenever a chat.message is handled while the configuration file exists
\* and parseJSONC throws on its content, loadConfig does not throw, it returns
\* debug = false with RFC2119_DEFAULTS, and the handler runs to completion
\* with the message rewritten by that default table.
DecodeFailureFallsBack ==
    (Processed /\ event.fileSeen.exists /\ event.fileSeen.content \in Undecodable) =>
        /\ ~event.config.threw
        /\ event.config.debug = FALSE
        /\ event.config.replacements = RFC2119_DEFAULTS
        /\ event.completed
        /\ debugEnabled = FALSE
        /\ parts = PartsRewritten(event.input, RFC2119_DEFAULTS)

\* a message with a user-typed part handled over a truncated file, completed
\* and rewritten by the defaults, the warning written
DecodeFailureWitness ==
    /\ Processed
    /\ event.fileSeen = FileWith(DocTruncated)
    /\ event.config.warned
    /\ event.completed
    /\ event.input = <<UserText(s_you_must_not_fail)>>
    /\ parts = <<UserText(s_you_MUST_NOT_fail)>>

\* C8: when the configuration decodes to an object with no replacements
\* field, the rule set used for the message is RFC2119_DEFAULTS.
AbsentReplacementsDefault ==
    (Processed /\ event.fileSeen.exists /\ event.fileSeen.content \in WithoutReplacements) =>
        /\ event.config.replacements = RFC2119_DEFAULTS
        /\ parts = PartsRewritten(event.input, RFC2119_DEFAULTS)

\* C9: each processed message is rewritten with the rule set and the debug
\* flag decoded from the configuration file as it is when the message is
\* handled, whatever was loaded at start-up or for an earlier message.
HotReload ==
    Processed =>
        /\ event.config = LoadedConfig[event.fileSeen]
        /\ event.completed
        /\ debugEnabled = LoadedConfig[event.fileSeen].debug
        /\ parts = PartsRewritten(event.input, LoadedConfig[event.fileSeen].replacements)
        /\ event.total = CountsOf(event.input, LoadedConfig[event.fileSeen].replacements)

\* a message rewritten by the rules of a file edited after start-up, the
\* start-up rules and debug flag being others
HotReloadWitness ==
    /\ Processed
    /\ event.fileSeen = FileWith(DocBold)
    /\ initialConfig.replacements = RFC2119_DEFAULTS
    /\ ~initialConfig.debug
    /\ debugEnabled
    /\ event.input = <<UserText(s_you_must_not_fail)>>
    /\ parts = <<UserText(<<"y", "o", "u", " ">> \o s_bold_MUST_NOT \o <<" ", "F", "A", "I", "L">>)>>
    /\ parts # PartsRewritten(event.input, initialConfig.replacements)

\* C10: a chat.message for a session is left unmodified exactly when a
\* command.execute.before for that session has occurred since the session's
\* previous chat.message; that message clears the mark, other sessions' marks
\* have no effect; every other chat.message has applyReplacements applied to
\* its user-typed parts and to no other part.
ScopeOfRewriting ==
    /\ sessionsWithCommand = commandSince
    /\ event.kind = "message" =>
          /\ event.skipped <=> event.commandBefore
          /\ event.sessionID \notin sessionsWithCommand
          /\ event.completed
          /\ event.skipped => parts = event.input
          /\ ~event.skipped =>
                /\ parts = PartsRewritten(event.input, event.config.replacements)
                /\ \A i \in 1..Len(parts) : ~IsUserTyped(event.input[i]) => parts[i] = event.input[i]

\* a message of a user-typed, a synthetic and a file part handled while the
\* other session is marked: the first part rewritten, the other two as they were
ScopeOfRewritingWitness ==
    /\ Processed
    /\ event.sessionID = "s1"
    /\ sessionsWithCommand = {"s2"}
    /\ event.input = <<UserText(s_should_not_fail), SyntheticText(s_you_must_not_fail),
                       FilePart(s_you_must_not_fail)>>
    /\ parts[1] # event.input[1]
    /\ parts[2] = event.input[2]
    /\ parts[3] = event.input[3]

(***************************************************************************)
(* Decoding a document as it is edited: parseJSONC, src/index.js:355-392   *)
(*                                                                         *)
(* The document is an object of one member, "k", whose value is a string   *)
(* literal, written over three lines.  Comments and a trailing comma are   *)
(* added to it one at a time, and then it is decoded.                      *)
(***************************************************************************)
\* string literals as written between their quotes
LitPlain == <<"v">>
LitUrl == <<"h", "t", "t", "p", ":", "/", "/", "x">>
LitEscapedQuote == <<"a", "\\", "\"", "/", "/", "b">>
LitEscapedBackslash == <<"a", "\\", "\\">>
LitBlockOpen == <<"a", "/", "*", "b">>
LitBlock == <<"a", "/", "*", "b", "*", "/", "c">>
LitCommaBrace == <<"x", ",", "}">>

Literals == {LitPlain, LitUrl, LitEscapedQuote, LitEscapedBackslash, LitBlockOpen, LitBlock,
             LitCommaBrace}

LineCommentSlots == {"lineAfterOpen", "lineAfterValue"}
BlockCommentSlots == {"blockBeforeKey", "blockAfterValue", "blockWithSlashes"}

\* piece where the decoration is among those added, nothing otherwise
With(added, decoration, piece) == IF decoration \in added THEN piece ELSE <<>>

\* the document with the decorations added:
\*   { // open
\*     /* key */ "k": "literal", /* val */ /* see http://x */ // note
\*   }
Render(lit, added) ==
    <<"{">> \o With(added, "lineAfterOpen", <<" ", "/", "/", " ", "o", "p", "e", "n">>)
    \o <<"\n", " ", " ">>
    \o With(added, "blockBeforeKey", <<"/", "*", " ", "k", "e", "y", " ", "*", "/", " ">>)
    \o <<"\"", "k", "\"", ":", " ", "\"">> \o lit \o <<Quote>>
    \o With(added, "trailingComma", <<",">>)
    \o With(added, "blockAfterValue", <<" ", "/", "*", " ", "v", "a", "l", " ", "*", "/">>)
    \o With(added, "blockWithSlashes", <<" ", "/", "*", " ", "s", "e", "e", " ", "h", "t", "t", "p", ":", "/", "/", "x", " ", "*", "/">>)
    \o With(added, "lineAfterValue", <<" ", "/", "/", " ", "n", "o", "t", "e">>)
    \o <<"\n", "}">>

InitDecoder ==
    /\ literal \in Literals
    /\ decorations = {}
    /\ document = Render(literal, {})
    /\ decoding = "editing"
    /\ decoded = <<>>
    /\ loaded = FALSE
    /\ configFile = NoFile
    /\ debugEnabled = FALSE
    /\ sessionsWithCommand = {}
    /\ initialConfig = <<>>
    /\ parts = <<>>
    /\ event = <<>>
    /\ commandSince = {}
    /\ tabulated = <<>>
    /\ variant = "ts"
    /\ text = <<>>
    /\ replacements = <<>>
    /\ pc = "idle"
    /\ sortedKeys = <<>>
    /\ combinedPattern = <<>>
    /\ lookup = EmptyMap
    /\ counts = EmptyMap
    /\ reLastIndex = 0
    /\ lastIndex = 0
    /\ result = <<>>
    /\ matches = <<>>

\* the user adds a decoration to the document
Decorate(d) ==
    /\ decoding = "editing"
    /\ d \notin decorations
    /\ decorations' = decorations \cup {d}
    /\ document' = Render(literal, decorations')
    /\ UNCHANGED <<literal, decoding, decoded>>
    /\ UNCHANGED <<engineVars, pluginVars>>

AddLineComment == \E d \in LineCommentSlots : Decorate(d)

AddBlockComment == \E d \in BlockCommentSlots : Decorate(d)

AddTrailingComma == Decorate("trailingComma")

\* parseJSONC(content) on the document, beside parseJSONC and JSON.parse on
\* the document without its decorations
Decode ==
    /\ decoding = "editing"
    /\ decoding' = "decoded"
    /\ decoded' = [document |-> parseJSONC(document),
                   plain |-> parseJSONC(Render(literal, {})),
                   strict |-> JSONParse(Render(literal, {}))]
    /\ UNCHANGED <<literal, decorations, document>>
    /\ UNCHANGED <<engineVars, pluginVars>>

NextDecoder ==
    \/ AddLineComment
    \/ AddBlockComment
    \/ AddTrailingComma
    \/ Decode

SpecDecoder == InitDecoder /\ [][NextDecoder]_vars

\* both threw, or both returned the same value
SameValue(a, b) == a.ok = b.ok /\ (a.ok => a.value = b.value)

\* C11: a document with // line comments (outside string literals), block
\* comments and a trailing comma before } added decodes to the same value as
\* the document without them, and that value is the document's own: string
\* literals come through the stripping passes intact, a // inside a string
\* (also after an escaped quote) being no comment.
DecoderRoundTrip ==
    decoding = "decoded" =>
        /\ decoded.strict.ok
        /\ SameValue(decoded.plain, decoded.strict)
        /\ SameValue(decoded.document, decoded.plain)

(***************************************************************************)
(* The scan's offsets                                                      *)
(***************************************************************************)
\* the match the scan returned last
LastMatch == matches[Len(matches)]

\* the offset just past match m
EndOf(m) == m.index + m.length

\* the replacement configured for match m ends in white space and the
\* character of the text directly after m is a space
SpaceCollapsedAfter(m) ==
    /\ EndsInWhiteSpace(ConfiguredFor(replacements, m.matched))
    /\ EndOf(m) < Len(text)
    /\ text[EndOf(m) + 1] = " "

\* the offset the copying goes on from after match m
CopiedUpTo(m) == IF SpaceCollapsedAfter(m) THEN EndOf(m) + 1 ELSE EndOf(m)

\* what the scan put in the output for match m
Emitted(m) == IF m.substituted THEN m.replacement ELSE m.matched

EndsWith(s, tail) ==
    /\ Len(tail) <= Len(s)
    /\ SubSeq(s, Len(s) - Len(tail) + 1, Len(s)) = tail

\* C12: for every match whose replacement ends in white space, a space
\* directly after the matched span is left out of the output (the copying
\* goes on one character further); when the replacement does not end in
\* white space, or the next character is no space, the copying goes on from
\* the end of the span and nothing is left out.
WhitespaceCollapsing ==
    /\ (pc = "loop" /\ matches # <<>>) =>
          /\ EndsWith(result, Emitted(LastMatch))
          /\ variant = "ts" => lastIndex = CopiedUpTo(LastMatch)
    /\ (Done /\ matches # <<>>) =>
          EndsWith(result, Emitted(LastMatch) \o Slice(text, CopiedUpTo(LastMatch), Len(text)))

\* the matcher's scan position after the first k matches (0 before the first)
PositionAfter(k) == IF k = 0 THEN 0 ELSE EndOf(matches[k])

\* the last copied offset after the first k matches, as the scan moved it
CopiedAfter(k) ==
    IF k = 0 THEN 0
    ELSE IF matches[k].consumed THEN EndOf(matches[k]) + 1 ELSE EndOf(matches[k])

\* C13: the scan loop terminates: each iteration strictly advances the
\* matcher's scan position, the last copied offset never decreases, and the
\* loop runs at most once per character of the text before the tail is
\* copied and the result returned.
ScanTerminates ==
    /\ Len(matches) <= Len(text)
    /\ \A k \in 1..Len(matches) :
          /\ PositionAfter(k) > PositionAfter(k - 1)
          /\ CopiedAfter(k) >= CopiedAfter(k - 1)
    /\ (pc = "loop" /\ matches # <<>>) =>
          /\ reLastIndex = PositionAfter(Len(matches))
          /\ lastIndex = CopiedAfter(Len(matches))
    /\ pc = "loop" =>
          (Len(matches) < MaxIterations(text) \/ ~Exec(combinedPattern, text, reLastIndex).found)

====
